---------------------------- MODULE Spec2Model ----------------------------
(***************************************************************************)
(* Voice Memos exporter (src/main.py): the export run as a state machine.  *)
(*                                                                         *)
(* Text (labels, paths, formats) is a sequence of one-character strings,   *)
(* so that sanitising, joining and splitting are computed as the code      *)
(* computes them.  "U+00E9" stands for one non-ASCII character.            *)
(* An optional database value (TEXT or NULL) is a sequence of length 0     *)
(* (NULL) or 1 (the text).                                                 *)
(***************************************************************************)
EXTENDS Integers, Sequences, FiniteSets, TLC

(* ------------------------------ bounds --------------------------------- *)

\* Largest number of rows the query returns.
MaxRows == 2

(* --------------------------- program constants ------------------------- *)

\* _dt_offset, its integral part: 2001-01-01 00:00:00 as seconds since 1970.
dt_offset == 978307200

\* key == 10: the confirm key (line feed).
KeyConfirm == 10

\* key == 27: the escape key.
KeyEscape == 27

\* Some other key ("n").
KeyOther == 110

(* ------------------------------- text ---------------------------------- *)

NULL == <<>>

Some(s) == <<s>>

\* Python truthiness of an optional text: not None and not "".
Truthy(opt) == opt # NULL /\ opt[1] # <<>>

NonAscii == {"U+00E9"}

\* s.encode('ascii', 'ignore').decode('ascii'): non-ASCII characters are dropped.
IsAsciiChar(c) == c \notin NonAscii

AsciiIgnore(s) == SelectSeq(s, IsAsciiChar)

\* s.replace("/", "_")
ReplaceSlash(s) == [k \in DOMAIN s |-> IF s[k] = "/" THEN "_" ELSE s[k]]

Untitled == <<"U", "n", "t", "i", "t", "l", "e", "d">>

\* label = row[2].encode(...).decode(...).replace("/", "_") if row[2] else "Untitled"
CleanLabel(opt) ==
    IF Truthy(opt) THEN ReplaceSlash(AsciiIgnore(opt[1])) ELSE Untitled

\* The largest index of character c in s, 0 when there is none (str.rfind + 1).
LastIndexOf(s, c) ==
    LET hits == {k \in DOMAIN s : s[k] = c}
    IN  IF hits = {} THEN 0 ELSE CHOOSE k \in hits : \A j \in hits : j <= k

\* os.path.splitext(p)[1]: from the last dot of the last component, unless that
\* component has only dots before it.
SplitExt(p) ==
    LET sepIndex == LastIndexOf(p, "/")
        dotIndex == LastIndexOf(p, ".")
    IN  IF /\ dotIndex > sepIndex
           /\ \E k \in (sepIndex + 1)..(dotIndex - 1) : p[k] # "."
        THEN SubSeq(p, dotIndex, Len(p))
        ELSE <<>>

\* str.rstrip("/")
RECURSIVE RStripSlash(_)
RStripSlash(s) ==
    IF s # <<>> /\ s[Len(s)] = "/" THEN RStripSlash(SubSeq(s, 1, Len(s) - 1)) ELSE s

\* os.path.dirname(p)
DirName(p) ==
    LET head == SubSeq(p, 1, LastIndexOf(p, "/"))
    IN  IF head # <<>> /\ \E k \in DOMAIN head : head[k] # "/"
        THEN RStripSlash(head)
        ELSE head

\* os.path.join(a, b)
PathJoin(a, b) ==
    IF b # <<>> /\ b[1] = "/" THEN b
    ELSE IF a = <<>> \/ a[Len(a)] = "/" THEN a \o b
    ELSE a \o <<"/">> \o b

(* ------------------------------- dates --------------------------------- *)

TwoDigits(n) == <<ToString(n \div 10), ToString(n % 10)>>

\* One strftime directive, or a literal character, for the calendar time of
\* `epoch` seconds (UTC; epochs of the first day of 2001).
StrftimeField(tok, epoch) ==
    CASE tok = "%Y" -> <<"2", "0", "0", "1">>
      [] tok = "%m" -> <<"0", "1">>
      [] tok = "%d" -> <<"0", "1">>
      [] tok = "%H" -> TwoDigits((epoch \div 3600) % 24)
      [] tok = "%M" -> TwoDigits((epoch \div 60) % 60)
      [] tok = "%S" -> TwoDigits(epoch % 60)
      [] OTHER -> <<tok>>

\* date.strftime(fmt): fmt is a sequence of directives and literal characters.
RECURSIVE Strftime(_, _)
Strftime(fmt, epoch) ==
    IF fmt = <<>> THEN <<>>
    ELSE StrftimeField(Head(fmt), epoch) \o Strftime(Tail(fmt), epoch)

\* date = datetime.fromtimestamp(row[0] + _dt_offset), as whole seconds.
DateOf(row) == row.date + dt_offset

\* date.strftime("%d.%m.%Y %H:%M:%S")
DateStrFormat == <<"%d", ".", "%m", ".", "%Y", " ", "%H", ":", "%M", ":", "%S">>

DateStr(row) == Strftime(DateStrFormat, DateOf(row))

\* The default of --date_in_name_format: "%Y-%m-%d-%H-%M-%S_".
DefaultDateFormat ==
    <<"%Y", "-", "%m", "-", "%d", "-", "%H", "-", "%M", "-", "%S", "_">>


(* -------------------------- the file system ---------------------------- *)

\* The components of a path: split at "/", empty components dropped.
RECURSIVE SplitPath(_, _)
SplitPath(p, cur) ==
    IF p = <<>> THEN (IF cur = <<>> THEN <<>> ELSE <<cur>>)
    ELSE IF Head(p) = "/"
         THEN (IF cur = <<>> THEN <<>> ELSE <<cur>>) \o SplitPath(Tail(p), <<>>)
         ELSE SplitPath(Tail(p), Append(cur, Head(p)))

\* The walk the operating system makes along the components, from the root.
RECURSIVE Walk(_, _)
Walk(comps, at) ==
    IF comps = <<>> THEN at
    ELSE LET c == Head(comps)
         IN  Walk(Tail(comps),
                  IF c = <<".">> THEN at
                  ELSE IF c = <<".", ".">>
                       THEN (IF at = <<>> THEN at ELSE SubSeq(at, 1, Len(at) - 1))
                       ELSE Append(at, c))

\* The place in the file tree an absolute path names: a sequence of names.
Locate(p) == Walk(SplitPath(p, <<>>), <<>>)

\* Whether path p names a place strictly below directory root.
Inside(p, root) ==
    LET a == Locate(p)
        r == Locate(root)
    IN  Len(a) > Len(r) /\ SubSeq(a, 1, Len(r)) = r

\* One line of a text file, or one block of a binary file.
Line(kind, date, memo, reason) ==
    [kind |-> kind, date |-> date, memo |-> memo, reason |-> reason]

\* The content of the audio (or other) file first stored under `name`.
DataOf(name) == <<Line("data", <<>>, name, "")>>

\* The clock while the run lasts (seconds since 1970), later than every recording.
RunTime == dt_offset + 3600

File(data, mtime) == [data |-> data, mtime |-> mtime]

(* ------------------------------ arguments ------------------------------ *)

\* args.db_path
db_path == <<"/", "d", "/", "C", ".", "d", "b">>

\* args.export_path
export_path == <<"/", "e">>

\* --date_in_name_format values tried: the default, and one naming a directory.
DateFormats == {DefaultDateFormat, <<".", ".", "/">>}

(* ------------------------------ the store ------------------------------ *)

\* (ZCUSTOMLABEL, ZPATH) of the recordings the database may hold.
MemoCandidates ==
    { [label |-> Some(<<"a">>), path |-> Some(<<"a", ".", "m", "4", "a">>)],
      [label |-> Some(<<"a">>), path |-> Some(<<"/", "v", "/", "b", ".", "m", "4", "a">>)],
      [label |-> NULL, path |-> NULL],
      [label |-> Some(<<"a", "/", "b">>), path |-> Some(<<"g", "o", "n", "e", ".", "m", "4", "a">>)],
      [label |-> Some(<<"U+00E9">>), path |-> Some(<<"a", ".", "m", "4", "a">>)],
      [label |-> Some(<<"f", "a", "i", "l", "e", "d", "_", "e", "x", "p", "o", "r", "t", "s">>),
       path |-> Some(<<"x", ".", "t", "x", "t">>)] }

\* The audio files on disk before the run; gone.m4a is in the cloud only.
SourceFiles ==
    { <<"/", "d", "/", "a", ".", "m", "4", "a">>,
      <<"/", "v", "/", "b", ".", "m", "4", "a">>,
      <<"/", "d", "/", "x", ".", "t", "x", "t">> }

InitialFiles ==
    [loc \in {Locate(p) : p \in SourceFiles} |->
        File(DataOf(loc[Len(loc)]), dt_offset)]

InitialDirs == {<<>>, Locate(DirName(db_path)), <<<<"v">>>>}


\* A failure log left in the export directory by an earlier run.
StaleLog ==
    <<Line("header", <<"e", "a", "r", "l", "i", "e", "r">>, <<>>, ""),
      Line("separator", <<>>, <<>>, ""),
      Line("FAILED", <<"o", "l", "d">>, Untitled, "Audio file not found on disk (likely in iCloud)")>>

(* ------------------------------- state --------------------------------- *)

VARIABLES
    db,                   \* what the database file allows: "unreadable", "unopenable", "ok"
    rows,                 \* what the query returns, ordered by ZDATE
    all,                  \* args.all
    date_in_name,         \* args.date_in_name
    date_in_name_format,  \* args.date_in_name_format
    pc,                   \* "start", "loop", "done", "exited" (exit()), "aborted" (uncaught exception)
    i,                    \* the index of the row the for loop takes next
    dirs,                 \* the directories on disk
    fs,                   \* the files on disk: place -> [data, mtime]
    failed_count,
    success_count,
    key,                  \* the loop's local `key`
    label,                \* the loop's local `label`
    path_old,             \* the loop's local `path_old`
    path_new,             \* the loop's local `path_new`
    out,                  \* the status column of the table row shown for each record
    keys_read             \* how many keystrokes the run has read from the terminal

vars ==
    <<db, rows, all, date_in_name, date_in_name_format, pc, i, dirs, fs,
      failed_count, success_count, key, label, path_old, path_new, out, keys_read>>

args == <<db, rows, all, date_in_name, date_in_name_format>>

\* log_path = os.path.join(args.export_path, "failed_exports.txt")
log_path ==
    PathJoin(export_path,
             <<"f", "a", "i", "l", "e", "d", "_", "e", "x", "p", "o", "r", "t", "s",
               ".", "t", "x", "t">>)

(* --------------------------- the path resolver ------------------------- *)

\* path_old_raw = row[3] if row[3] else ""
PathOldRaw(row) == IF Truthy(row.path) THEN row.path[1] ELSE <<>>

\* path_old: the stored path, joined to the database's directory unless absolute.
PathOld(row) ==
    LET raw == PathOldRaw(row)
    IN  IF raw = <<>> THEN <<>>
        ELSE IF raw[1] # "/" THEN PathJoin(DirName(db_path), raw)
        ELSE raw

\* The destination's file name: [date prefix] label extension.
FileName(row) ==
    (IF date_in_name THEN Strftime(date_in_name_format, DateOf(row)) ELSE <<>>)
        \o CleanLabel(row.label) \o SplitExt(PathOld(row))

\* path_new
PathNew(row) ==
    IF PathOldRaw(row) = <<>> THEN <<>>
    ELSE PathJoin(export_path, FileName(row))

(* --------------------------- the export executor ----------------------- *)

\* os.path.exists(p)
Exists(p) == Locate(p) \in DOMAIN fs \/ Locate(p) \in dirs

\* A mutant of SourceMissing: only the empty path counts as missing.
SourceMissing_EmptyOnly(p) == p = <<>>

\* not path_old or not os.path.exists(path_old)
SourceMissing(p) == p = <<>> \/ ~Exists(p)

MissingReason == "Audio file not found on disk (likely in iCloud)"

\* What the operating system may do to a copy whose source is there: nothing
\* wrong, an error before the destination is opened, an error while writing
\* it, an error setting the times.
IoOutcomes == {"ok", "copy_error", "copy_partial", "utime_error"}

\* Whether copyfile(src, dst) can open both files: src is a file, dst is another
\* place, its directory is there and dst is no directory.
Copyable(src, dst) ==
    LET d == Locate(dst)
    IN  /\ Locate(src) \in DOMAIN fs
        /\ d # <<>>
        /\ d \notin dirs
        /\ SubSeq(d, 1, Len(d) - 1) \in dirs
        /\ d # Locate(src)

\* str(e) of the exception the try block raises, "" when it raises none.
Raised(src, dst, io) ==
    IF SourceMissing(src) THEN MissingReason
    ELSE IF ~Copyable(src, dst) \/ io \in {"copy_error", "copy_partial"}
         THEN "copyfile failed"
    ELSE IF io = "utime_error" THEN "utime failed"
    ELSE ""

WriteFile(files, p, f) == (Locate(p) :> f) @@ files

\* A mutant of FilesAfterTry: a destination that exists is left as it is.
FilesAfterTry_KeepFirst(row, src, dst, io) ==
    IF \/ SourceMissing(src) \/ ~Copyable(src, dst) \/ io = "copy_error"
       \/ Locate(dst) \in DOMAIN fs
    THEN fs
    ELSE WriteFile(fs, dst, File(fs[Locate(src)].data, DateOf(row)))

\* The files after copyfile(path_old, path_new) and os.utime(path_new, ...).
FilesAfterTry(row, src, dst, io) ==
    IF SourceMissing(src) \/ ~Copyable(src, dst) \/ io = "copy_error" THEN fs
    ELSE IF io = "copy_partial" THEN WriteFile(fs, dst, File(<<>>, RunTime))
    ELSE IF io = "utime_error"
         THEN WriteFile(fs, dst, File(fs[Locate(src)].data, RunTime))
    ELSE WriteFile(fs, dst, File(fs[Locate(src)].data, DateOf(row)))

(* ---------------------------- the failure log -------------------------- *)

\* The two lines written at run start.
LogHeader ==
    <<Line("header", <<"n", "o", "w">>, <<>>, ""), Line("separator", <<>>, <<>>, "")>>

\* "FAILED: {} | Memo: {} | Reason: {}\n".format(date_str, label, str(e))
FailedLine(row, reason) == Line("FAILED", DateStr(row), CleanLabel(row.label), reason)

\* open(log_path, "a") and write: the file is created when it is not there.
AppendLog(files, line) ==
    LET at == Locate(log_path)
    IN  IF at \in DOMAIN files
        THEN [files EXCEPT ![at] = File(Append(@.data, line), RunTime)]
        ELSE WriteFile(files, log_path, File(<<line>>, RunTime))


(* ------------------------------ the run -------------------------------- *)

Init ==
    /\ db \in {"unreadable", "unopenable", "ok"}
    /\ \E n \in 0..MaxRows : \E memo \in [1..n -> MemoCandidates] :
          rows = [k \in 1..n |->
                    [date |-> k, duration |-> 5,
                     label |-> memo[k].label, path |-> memo[k].path]]
    /\ all \in BOOLEAN
    /\ date_in_name \in BOOLEAN
    /\ date_in_name_format \in
          (IF date_in_name THEN DateFormats ELSE {DefaultDateFormat})
    /\ pc = "start"
    /\ i = 1
    /\ \E stale \in BOOLEAN :
          IF stale
          THEN /\ dirs = InitialDirs \cup {Locate(export_path)}
               /\ fs = WriteFile(InitialFiles, log_path, File(StaleLog, dt_offset))
          ELSE /\ dirs = InitialDirs
               /\ fs = InitialFiles
    /\ failed_count = 0
    /\ success_count = 0
    /\ key = 0
    /\ label = <<>>
    /\ path_old = <<>>
    /\ path_new = <<>>
    /\ out = <<>>
    /\ keys_read = 0

\* if not os.access(args.db_path, os.R_OK): ... exit()
PermissionDenied ==
    /\ pc = "start"
    /\ db = "unreadable"
    /\ pc' = "exited"
    /\ UNCHANGED <<args, i, dirs, fs, failed_count, success_count, key, label,
                   path_old, path_new, out, keys_read>>

\* if not conn: exit()
NoConnection ==
    /\ pc = "start"
    /\ db = "unopenable"
    /\ pc' = "exited"
    /\ UNCHANGED <<args, i, dirs, fs, failed_count, success_count, key, label,
                   path_old, path_new, out, keys_read>>

\* A mutant of EmptySource: the export directory and the log are made before
\* the rows are looked at.
EmptySource_AfterSetup ==
    /\ pc = "start"
    /\ db = "ok"
    /\ rows = <<>>
    /\ pc' = "exited"
    /\ dirs' = dirs \cup {Locate(export_path)}
    /\ fs' = WriteFile(fs, log_path, File(LogHeader, RunTime))
    /\ UNCHANGED <<args, i, failed_count, success_count, key, label,
                   path_old, path_new, out, keys_read>>

\* if not rows: exit()
EmptySource ==
    /\ pc = "start"
    /\ db = "ok"
    /\ rows = <<>>
    /\ pc' = "exited"
    /\ UNCHANGED <<args, i, dirs, fs, failed_count, success_count, key, label,
                   path_old, path_new, out, keys_read>>

\* os.makedirs(args.export_path) when it is not there; the log file opened "w"
\* and given its header; the table's head printed; the counters set to 0.
Setup ==
    /\ pc = "start"
    /\ db = "ok"
    /\ rows # <<>>
    /\ dirs' = (IF Exists(export_path) THEN dirs ELSE dirs \cup {Locate(export_path)})
    /\ fs' = WriteFile(fs, log_path, File(LogHeader, RunTime))
    /\ failed_count' = 0
    /\ success_count' = 0
    /\ pc' = "loop"
    /\ UNCHANGED <<args, i, key, label, path_old, path_new, out, keys_read>>

\* The keys the record's decision may see: 10 when --all is given, else the one
\* keystroke read from the terminal.
Keys == IF all THEN {KeyConfirm} ELSE {KeyConfirm, KeyEscape, KeyOther}

\* The top of the loop body for rows[i], up to the decision: the date and the
\* label, the two paths, the key.
Resolve(k, src, dst) ==
    /\ pc = "loop"
    /\ i <= Len(rows)
    /\ k \in Keys
    /\ key' = k
    /\ label' = CleanLabel(rows[i].label)
    /\ path_old' = src
    /\ path_new' = dst
    /\ keys_read' = (IF all THEN keys_read ELSE keys_read + 1)

\* A mutant of Exported: the success is not counted.
Exported_Uncounted ==
    /\ pc = "loop"
    /\ i <= Len(rows)
    /\ LET src == PathOld(rows[i])
           dst == PathNew(rows[i])
       IN  /\ Resolve(KeyConfirm, src, dst)
           /\ \E io \in IoOutcomes :
                /\ Raised(src, dst, io) = ""
                /\ fs' = FilesAfterTry(rows[i], src, dst, io)
           /\ out' = Append(out, "Success!")
           /\ i' = i + 1
           /\ UNCHANGED <<args, pc, dirs, failed_count, success_count>>

\* key == 10, and the try block raises nothing: "Success!".
Exported ==
    /\ pc = "loop"
    /\ i <= Len(rows)
    /\ LET src == PathOld(rows[i])
           dst == PathNew(rows[i])
       IN  /\ Resolve(KeyConfirm, src, dst)
           /\ \E io \in IoOutcomes :
                /\ Raised(src, dst, io) = ""
                /\ fs' = FilesAfterTry(rows[i], src, dst, io)
           /\ success_count' = success_count + 1
           /\ out' = Append(out, "Success!")
           /\ i' = i + 1
           /\ UNCHANGED <<args, pc, dirs, failed_count>>

\* key == 10, the try block raises, and the handler logs it: "FAILED (Logged)".
Failed ==
    /\ pc = "loop"
    /\ i <= Len(rows)
    /\ LET src == PathOld(rows[i])
           dst == PathNew(rows[i])
       IN  /\ Resolve(KeyConfirm, src, dst)
           /\ \E io \in IoOutcomes :
                /\ Raised(src, dst, io) # ""
                /\ fs' = AppendLog(FilesAfterTry(rows[i], src, dst, io),
                                   FailedLine(rows[i], Raised(src, dst, io)))
           /\ failed_count' = failed_count + 1
           /\ out' = Append(out, "FAILED (Logged)")
           /\ i' = i + 1
           /\ UNCHANGED <<args, pc, dirs, success_count>>

\* key == 10, the try block raises, and the handler's own open or write of the
\* log raises: nothing catches it and the run ends with a traceback.
Aborted ==
    /\ pc = "loop"
    /\ i <= Len(rows)
    /\ LET src == PathOld(rows[i])
           dst == PathNew(rows[i])
       IN  /\ Resolve(KeyConfirm, src, dst)
           /\ \E io \in IoOutcomes :
                /\ Raised(src, dst, io) # ""
                /\ fs' = FilesAfterTry(rows[i], src, dst, io)
           /\ pc' = "aborted"
           /\ UNCHANGED <<args, i, dirs, failed_count, success_count, out>>

\* key == 27: "Skipped".
Skipped ==
    /\ pc = "loop"
    /\ i <= Len(rows)
    /\ Resolve(KeyEscape, PathOld(rows[i]), PathNew(rows[i]))
    /\ out' = Append(out, "Skipped")
    /\ i' = i + 1
    /\ UNCHANGED <<args, pc, dirs, fs, failed_count, success_count>>

\* A mutant of Ignored: every key but escape exports (key != 27 for key == 10).
Ignored_AsConfirm ==
    /\ pc = "loop"
    /\ i <= Len(rows)
    /\ LET src == PathOld(rows[i])
           dst == PathNew(rows[i])
       IN  /\ Resolve(KeyOther, src, dst)
           /\ Raised(src, dst, "ok") = ""
           /\ fs' = FilesAfterTry(rows[i], src, dst, "ok")
           /\ success_count' = success_count + 1
           /\ out' = Append(out, "Success!")
           /\ i' = i + 1
           /\ UNCHANGED <<args, pc, dirs, failed_count>>

\* Any other key: neither branch is taken, the row stays at "Export?".
Ignored ==
    /\ pc = "loop"
    /\ i <= Len(rows)
    /\ Resolve(KeyOther, PathOld(rows[i]), PathNew(rows[i]))
    /\ out' = Append(out, "Export?")
    /\ i' = i + 1
    /\ UNCHANGED <<args, pc, dirs, fs, failed_count, success_count>>

\* The loop is through: the table's foot and the summary are printed.
Summary ==
    /\ pc = "loop"
    /\ i > Len(rows)
    /\ pc' = "done"
    /\ UNCHANGED <<args, i, dirs, fs, failed_count, success_count, key, label,
                   path_old, path_new, out, keys_read>>

Next ==
    \/ PermissionDenied
    \/ NoConnection
    \/ EmptySource
    \/ Setup
    \/ Exported
    \/ Failed
    \/ Aborted
    \/ Skipped
    \/ Ignored
    \/ Summary

Spec == Init /\ [][Next]_vars


(* ------------------------- what the claims speak of -------------------- *)

\* The index of the row the loop body ran on last (0: none yet).
LastRow == IF pc = "aborted" THEN i ELSE i - 1

\* Whether there is no file or directory for path p (stated on the disk itself).
NoSourceFile(p) == p = <<>> \/ (Locate(p) \notin DOMAIN fs /\ Locate(p) \notin dirs)

\* The rows whose source is missing: the stored path is empty, or names nothing.
MissingRows == {k \in 1..Len(rows) : NoSourceFile(PathOld(rows[k]))}

LogData == fs[Locate(log_path)].data

IsFailedLine(l) == l.kind = "FAILED"

\* How many "FAILED:" lines a file's content holds.
FailedLines(data) == Len(SelectSeq(data, IsFailedLine))

\* What identifies a line: its kind, its date and its memo.
Entry(l) == <<l.kind, l.date, l.memo>>

Entries(data) == [k \in DOMAIN data |-> Entry(data[k])]

\* The ledger after the first k records: the header, then one FAILED line for
\* each record that failed, in processing order.
RECURSIVE ExpectedLedger(_)
ExpectedLedger(k) ==
    IF k = 0 THEN Entries(LogHeader)
    ELSE ExpectedLedger(k - 1) \o
         (IF out[k] = "FAILED (Logged)"
          THEN <<Entry(FailedLine(rows[k], ""))>>
          ELSE <<>>)

\* The rows shown with the given status.
RowsShown(status) == {k \in 1..Len(out) : out[k] = status}

(* ------------------------------- claims -------------------------------- *)

\* C1: once the per-record loop has started, no outcome of processing a single
\* record (missing source, an error during the copy, during the setting of the
\* times, or while recording the failure) stops the run: the loop is never left
\* by an uncaught error, every record is processed once in order, and the run
\* ends at the summary with every record processed.
C1_FailureIsolation ==
    /\ pc # "aborted"
    /\ pc \in {"loop", "done"} => Len(out) = i - 1
    /\ pc = "done" => Len(out) = Len(rows)

\* C2: in batch mode, when exactly K of the N records have a missing source and
\* the other N-K are copied without error, the run ends with success_count = N-K,
\* failed_count = K and exactly K FAILED lines in the log file.
C2_BatchMissingCounts ==
    (/\ pc = "done"
     /\ all
     /\ \A k \in 1..Len(rows) : k \in MissingRows \/ out[k] = "Success!")
    => /\ success_count = Len(rows) - Cardinality(MissingRows)
       /\ failed_count = Cardinality(MissingRows)
       /\ FailedLines(LogData) = Cardinality(MissingRows)

\* C6: the failure log is an ordered, append-only ledger: after any prefix of the
\* records has been processed it is the header written at run start followed by
\* exactly one FAILED line per record that failed so far, in processing order,
\* and the number of its FAILED lines is failed_count; no later step of the run
\* (a later export included) alters or removes a line.
C6_AppendOnlyLedger ==
    pc \in {"loop", "done"}
    => /\ Entries(LogData) = ExpectedLedger(Len(out))
       /\ FailedLines(LogData) = failed_count

\* C9: for every record, label, stored path and setting of the formatting
\* options, the destination path computed for a record and used for its copy
\* lies inside the export root.
C9_DestinationInsideRoot ==
    \A k \in RowsShown("Success!") : Inside(PathNew(rows[k]), export_path)

\* C10: sanitising a label is idempotent: the label computed for a record is left
\* as it is by sanitising it again; it holds no path separator and no character
\* outside ASCII, and an empty or missing label becomes "Untitled".
C10_SanitizeIdempotent ==
    LastRow >= 1
    => /\ label = CleanLabel(rows[LastRow].label)
       /\ CleanLabel(Some(label)) = label
       /\ \A k \in DOMAIN label : label[k] # "/" /\ label[k] \notin NonAscii
       /\ ~Truthy(rows[LastRow].label) => label = Untitled


\* The files and directories are as one of the two initial disks has them.
DiskUntouched ==
    \/ fs = InitialFiles /\ dirs = InitialDirs
    \/ /\ fs = WriteFile(InitialFiles, log_path, File(StaleLog, dt_offset))
       /\ dirs = InitialDirs \cup {Locate(export_path)}

\* C7: the two fatal preconditions are checked before any processing: when the
\* database is not readable or the query yields no row, the run ends having
\* created no directory, created or truncated no log, read no keystroke and
\* copied no file; only when both checks pass is the export directory made and
\* the log given its header, and both before the first record is processed.
C7_FatalBeforeProcessing ==
    /\ pc \in {"start", "exited"}
       => DiskUntouched /\ keys_read = 0 /\ out = <<>> /\ key = 0
    /\ pc = "exited" => db # "ok" \/ rows = <<>>
    /\ pc \in {"loop", "done", "aborted"}
       => /\ db = "ok" /\ rows # <<>>
          /\ Locate(export_path) \in dirs
          /\ Locate(log_path) \in DOMAIN fs
    /\ (pc = "loop" /\ i = 1) => LogData = LogHeader /\ key = 0

\* C7's case: the query gave no row, and the log an earlier run left is intact.
C7_Witness ==
    /\ pc = "exited"
    /\ db = "ok"
    /\ rows = <<>>
    /\ Locate(log_path) \in DOMAIN fs
    /\ LogData = StaleLog

\* The name two records are given when no date goes into it.
PlainName(k) == CleanLabel(rows[k].label) \o SplitExt(PathOld(rows[k]))

\* C8: no collision disambiguation: when two distinct recordings with present
\* sources have the same sanitised label and extension and date_in_name is
\* false, both resolve to the same destination, both exports are counted as
\* successes, and after the second export the destination holds the second
\* recording's content.
C8_CollisionOverwrites ==
    \A k \in 1..(Len(out) - 1) :
        LET m == Len(out)
        IN  (/\ pc # "aborted"
             /\ ~date_in_name
             /\ out[k] = "Success!"
             /\ out[m] = "Success!"
             /\ PlainName(k) = PlainName(m))
            => /\ PathNew(rows[k]) = PathNew(rows[m])
               /\ path_new = PathNew(rows[m])
               /\ fs[Locate(path_new)].data = fs[Locate(PathOld(rows[m]))].data
               /\ success_count = Cardinality(RowsShown("Success!"))

\* C8's case: two recordings with different audio exported to one destination.
C8_Witness ==
    /\ pc = "loop"
    /\ ~date_in_name
    /\ Len(out) = 2
    /\ out = <<"Success!", "Success!">>
    /\ PlainName(1) = PlainName(2)
    /\ fs[Locate(PathOld(rows[1]))].data # fs[Locate(PathOld(rows[2]))].data


\* A step of the loop body on rows[i]: it ends with the next row's turn, or
\* with the run aborted.
BodyStep == pc = "loop" /\ i <= Len(rows) /\ (i' = i + 1 \/ pc' = "aborted")

\* The step ended with rows[i] shown as `status`.
ShownAs(status) == i' = i + 1 /\ Len(out') = i /\ out'[i] = status

\* The step appended one FAILED line for rows[i] to the log and changed no
\* other line of it.
LoggedAs(files, reason) ==
    LET at == Locate(log_path)
    IN  /\ at \in DOMAIN files
        /\ fs' = [files EXCEPT ![at] = File(Append(@.data, FailedLine(rows[i], reason)),
                                            RunTime)]

\* C3 as stated: for every record whose source path is empty or names nothing,
\* in every mode and for every keystroke, the outcome is Failed with the
\* missing-source reason, failed_count grows by exactly 1 and success_count
\* stays.
C3_MissingAlwaysFails ==
    [][(BodyStep /\ i' = i + 1 /\ NoSourceFile(PathOld(rows[i])))
       => /\ ShownAs("FAILED (Logged)")
          /\ LoggedAs(fs, MissingReason)
          /\ failed_count' = failed_count + 1
          /\ success_count' = success_count]_vars

\* C3 as amended: a record whose source is missing is never copied or counted
\* as a success; when it is decided for export (batch mode, or the confirm key)
\* a FAILED line with the missing-source reason is logged and failed_count grows
\* by exactly 1, unless that write of the log raises and aborts the run; on any
\* other key it is skipped and neither counter changes.
C3_MissingFailsWhenExported ==
    [][(BodyStep /\ NoSourceFile(PathOld(rows[i])))
       => /\ success_count' = success_count
          /\ dirs' = dirs
          /\ key' = KeyConfirm
             => \/ /\ ShownAs("FAILED (Logged)")
                   /\ LoggedAs(fs, MissingReason)
                   /\ failed_count' = failed_count + 1
                \/ /\ pc' = "aborted"
                   /\ fs' = fs
                   /\ failed_count' = failed_count
          /\ key' # KeyConfirm
             => /\ ~all
                /\ ShownAs(IF key' = KeyEscape THEN "Skipped" ELSE "Export?")
                /\ fs' = fs
                /\ failed_count' = failed_count]_vars

\* C3's case: interactive mode, the confirm key, a stored path that names no
\* file; the failure is logged and counted.
C3_Witness ==
    /\ ~all
    /\ pc = "loop"
    /\ key = KeyConfirm
    /\ i >= 2
    /\ out[i - 1] = "FAILED (Logged)"
    /\ path_old # <<>>
    /\ NoSourceFile(path_old)
    /\ failed_count >= 1
    /\ LogData[Len(LogData)] = FailedLine(rows[i - 1], MissingReason)

\* The step copied rows[i]'s source over its destination, with the recording's
\* time, and changed no other file.
Copied ==
    /\ Locate(PathNew(rows[i])) \in DOMAIN fs'
    /\ fs' = WriteFile(fs, PathNew(rows[i]),
                       File(fs[Locate(PathOld(rows[i]))].data, DateOf(rows[i])))

\* The step left every file but rows[i]'s destination and the log as it was.
OthersKept ==
    \A at \in DOMAIN fs :
        at \in {Locate(PathNew(rows[i])), Locate(log_path)}
        \/ (at \in DOMAIN fs' /\ fs'[at] = fs[at])

\* C4 as stated: in interactive mode the decision depends on the keystroke
\* alone: the confirm key on a record whose source is present yields Exported
\* (the file copied, success_count + 1); escape, and any other key, yields a
\* skip: no file made or overwritten, no counter changed, no line logged.
C4_KeyDecides ==
    [][(BodyStep /\ ~all)
       => /\ (key' = KeyConfirm /\ ~NoSourceFile(PathOld(rows[i])))
             => /\ ShownAs("Success!")
                /\ Copied
                /\ success_count' = success_count + 1
                /\ failed_count' = failed_count
          /\ key' # KeyConfirm
             => /\ ShownAs(IF key' = KeyEscape THEN "Skipped" ELSE "Export?")
                /\ fs' = fs /\ dirs' = dirs
                /\ success_count' = success_count
                /\ failed_count' = failed_count]_vars

\* C4 as amended: the confirm key on a record whose source is present yields
\* Exported (the file copied, success_count + 1) unless the copy or the setting
\* of the times raises; then the record is Failed (logged with that error,
\* failed_count + 1), or the run aborts when the write of the log raises too.
\* Escape, and any other key, yields a skip as stated.
C4_KeyDecidesUnlessCopyFails ==
    [][(BodyStep /\ ~all)
       => /\ (key' = KeyConfirm /\ ~NoSourceFile(PathOld(rows[i])))
             => \/ /\ ShownAs("Success!")
                   /\ Copied
                   /\ success_count' = success_count + 1
                   /\ failed_count' = failed_count
                \/ /\ ShownAs("FAILED (Logged)")
                   /\ \E io \in IoOutcomes \ {"ok"} :
                         LoggedAs(FilesAfterTry(rows[i], PathOld(rows[i]),
                                                PathNew(rows[i]), io),
                                  IF io = "utime_error" THEN "utime failed"
                                  ELSE "copyfile failed")
                   /\ OthersKept
                   /\ failed_count' = failed_count + 1
                   /\ success_count' = success_count
                \/ /\ pc' = "aborted"
                   /\ OthersKept
                   /\ out' = out
                   /\ success_count' = success_count
                   /\ failed_count' = failed_count
          /\ key' # KeyConfirm
             => /\ ShownAs(IF key' = KeyEscape THEN "Skipped" ELSE "Export?")
                /\ fs' = fs /\ dirs' = dirs
                /\ success_count' = success_count
                /\ failed_count' = failed_count]_vars

\* C4's case: interactive mode, the confirm key on a present source, the file
\* copied and counted.
C4_Witness ==
    /\ ~all
    /\ pc = "loop"
    /\ key = KeyConfirm
    /\ keys_read >= 1
    /\ i >= 2
    /\ out[i - 1] = "Success!"
    /\ success_count >= 1
    /\ Locate(path_new) \in DOMAIN fs
    /\ fs[Locate(path_new)].data = fs[Locate(path_old)].data


\* The run is over, in batch mode, every source was present and every record
\* was copied without error.
BatchAllCopied ==
    /\ pc = "done"
    /\ all
    /\ MissingRows = {}
    /\ \A k \in 1..Len(rows) : out[k] = "Success!"

\* The places of the records' destinations.
Destinations == {Locate(PathNew(rows[k])) : k \in 1..Len(rows)}

\* The files in the export directory, the failure log aside.
ExportedFiles ==
    {at \in DOMAIN fs : /\ Len(at) > Len(Locate(export_path))
                        /\ SubSeq(at, 1, Len(Locate(export_path))) = Locate(export_path)
                        /\ at # Locate(log_path)}

\* The last of the rows whose destination is the place `at`.
LastRowTo(at) ==
    CHOOSE k \in 1..Len(rows) :
        /\ Locate(PathNew(rows[k])) = at
        /\ \A j \in (k + 1)..Len(rows) : Locate(PathNew(rows[j])) # at

\* C5 as stated: in batch mode, for N records whose sources are all present, the
\* run ends with success_count = N, failed_count = 0 and exactly N files created
\* in the export directory. Stated here for the runs that favour it most: every
\* copy succeeds and every destination is a file name in the export directory
\* other than the log's.
C5_BatchAllPresent ==
    (/\ BatchAllCopied
     /\ \A k \in 1..Len(rows) :
           /\ Inside(PathNew(rows[k]), export_path)
           /\ Locate(PathNew(rows[k])) # Locate(log_path))
    => /\ success_count = Len(rows)
       /\ failed_count = 0
       /\ Cardinality(ExportedFiles) = Len(rows)

\* C5 as amended: in batch mode, for N records whose sources are all present and
\* whose copies raise no error, the run ends with success_count = N and
\* failed_count = 0, and the files it made are the log and one file per distinct
\* destination path (N files only when the N destinations differ), each holding
\* the content and time of the last record resolved to it.
C5_BatchOneFilePerDestination ==
    BatchAllCopied
    => /\ success_count = Len(rows)
       /\ failed_count = 0
       /\ DOMAIN fs = DOMAIN InitialFiles \cup {Locate(log_path)} \cup Destinations
       /\ \A at \in Destinations :
             fs[at] = File(InitialFiles[Locate(PathOld(rows[LastRowTo(at)]))].data,
                           DateOf(rows[LastRowTo(at)]))

\* C5's case: a batch run over two present recordings that resolve to one
\* destination: two successes, one file.
C5_Witness ==
    /\ BatchAllCopied
    /\ Len(rows) = 2
    /\ success_count = 2
    /\ Cardinality(Destinations) = 1
    /\ Cardinality(ExportedFiles) = 1

=============================================================================
